---- MODULE Spec2Model ----
(***************************************************************************)
(* Model of projeto/projeto/main.py: the Streamlit dashboard over          *)
(* SpotifyFeatures.csv.  The modelled operations are load_data,            *)
(* calculate_top_artists (both wrapped by st.cache_data) and the part of   *)
(* main that builds the genre list, filters the rows and calls             *)
(* calculate_top_artists.  The CSV file on disk is the environment.        *)
(*                                                                         *)
(* A text is a tuple of characters; a character is a one-character string, *)
(* or a name for a character outside ASCII.  A dataframe is the tuple of   *)
(* its rows; a filtered dataframe is the tuple of the index labels it      *)
(* keeps, in order.  Every row has a genre, an artist_name, a track_name   *)
(* and an integer popularity; null fields are outside the model.           *)
(* avg_top3_popularity is held in tenths (833 is 83.3).                    *)
(***************************************************************************)
EXTENDS Integers, Sequences, FiniteSets, TLC

VARIABLES
    csv_file,            \* SpotifyFeatures.csv on disk: [kind, rows]
    load_cache,          \* st.cache_data entry of load_data()
    calc_cache,          \* st.cache_data entries of calculate_top_artists, by genre_filter
    ret,                 \* the last call: operation, argument, outcome, returned value
    filtered_data,       \* calculate_top_artists' local filtered_data when its body last ran
    notices,             \* st.error notices of the last call
    genres,              \* main's local genres (the selectbox options)
    selected_genre,      \* main's local selected_genre
    main_filtered_data   \* main's local filtered_data

vars == <<csv_file, load_cache, calc_cache, ret, filtered_data, notices,
          genres, selected_genre, main_filtered_data>>

----------------------------------------------------------------------------
(* Bounds of the model *)

MaxRows == 2
MaxLabels == 2
SmallFill == 10
BigFill == 500

----------------------------------------------------------------------------
(* Characters and texts *)

UpperCase == <<"A","B","C","D","E","F","G","H","I","J","K","L","M",
               "N","O","P","Q","R","S","T","U","V","W","X","Y","Z">>
LowerCase == <<"a","b","c","d","e","f","g","h","i","j","k","l","m",
               "n","o","p","q","r","s","t","u","v","w","x","y","z">>
Digits == <<"0","1","2","3","4","5","6","7","8","9">>

Range(s) == {s[i] : i \in DOMAIN s}

IndexOf(s, c) == CHOOSE i \in DOMAIN s : s[i] = c

UpperCaseSet == Range(UpperCase)
LowerCaseSet == Range(LowerCase)
DigitSet == Range(Digits)

\* U+2011 NON-BREAKING HYPHEN and U+2019 RIGHT SINGLE QUOTATION MARK
NBHYPHEN == "U+2011"
RSQUO == "U+2019"
DQUOTE == "U+0022"
BACKTICK == "U+0060"

\* Code point of a character: Python compares texts by code point.
Ord(c) ==
    IF c \in UpperCaseSet THEN 64 + IndexOf(UpperCase, c)
    ELSE IF c \in LowerCaseSet THEN 96 + IndexOf(LowerCase, c)
    ELSE IF c \in DigitSet THEN 47 + IndexOf(Digits, c)
    ELSE CASE c = " " -> 32
           [] c = DQUOTE -> 34
           [] c = "'" -> 39
           [] c = "-" -> 45
           [] c = BACKTICK -> 96
           [] c = NBHYPHEN -> 8209
           [] c = RSQUO -> 8217

\* str.lower(), character by character
LowerOmitted(c) == c

Lower(c) == IF c \in UpperCaseSet THEN LowerCase[IndexOf(UpperCase, c)] ELSE c

LowerStr(s) == [i \in DOMAIN s |-> Lower(s[i])]

\* \s of the regular expressions, and the characters str.strip() removes
IsSpace(c) == c = " "

\* [a-zA-Z0-9\s]: the characters re.sub(r'[^a-zA-Z0-9\s]', '', ...) keeps
KeptSet == LowerCaseSet \cup UpperCaseSet \cup DigitSet

IsKept(c) == c \in KeptSet \/ IsSpace(c)

\* re.sub(r'[^a-zA-Z0-9\s]', '', x.lower())
Canonicalize(x) == SelectSeq(LowerStr(x), IsKept)

RECURSIVE LStrip(_)
LStrip(s) == IF s # <<>> /\ IsSpace(Head(s)) THEN LStrip(Tail(s)) ELSE s

RECURSIVE RStrip(_)
RStrip(s) ==
    IF s # <<>> /\ IsSpace(s[Len(s)]) THEN RStrip(SubSeq(s, 1, Len(s) - 1)) ELSE s

\* str.strip()
Strip(s) == RStrip(LStrip(s))

\* re.sub of the character class of double quote, apostrophe and backtick by "'"
NormalizeQuotes(s) == [i \in DOMAIN s |-> IF s[i] \in {DQUOTE, "'", BACKTICK} THEN "'" ELSE s[i]]

\* normalized of main's loop
Normalized(genre) == NormalizeQuotes(Strip(genre))

\* normalized_key of main's loop
NormalizedKey(genre) == Canonicalize(Normalized(genre))

\* s < t for Python texts
RECURSIVE StrLess(_, _)
StrLess(s, t) ==
    IF t = <<>> THEN FALSE
    ELSE IF s = <<>> THEN TRUE
    ELSE IF Ord(Head(s)) # Ord(Head(t)) THEN Ord(Head(s)) < Ord(Head(t))
    ELSE StrLess(Tail(s), Tail(t))

RECURSIVE Insert(_, _)
Insert(x, sorted) ==
    IF sorted = <<>> THEN <<x>>
    ELSE IF StrLess(x, Head(sorted)) THEN <<x>> \o sorted
    ELSE <<Head(sorted)>> \o Insert(x, Tail(sorted))

\* sorted(list of texts): stable, ascending
RECURSIVE Sorted(_)
Sorted(s) == IF s = <<>> THEN <<>> ELSE Insert(s[Len(s)], Sorted(SubSeq(s, 1, Len(s) - 1)))

Todos == <<"T","o","d","o","s">>

----------------------------------------------------------------------------
(* Dataframes *)

Min2(a, b) == IF a < b THEN a ELSE b

Max(S) == CHOOSE x \in S : \A y \in S : y <= x

RECURSIVE Sum(_)
Sum(s) == IF s = <<>> THEN 0 ELSE Head(s) + Sum(Tail(s))

\* A sequence with every element evaluated once (TLC evaluates the elements of
\* [k \in 1..n |-> e] anew at each application otherwise)
Force(s) == SelectSeq(s, LAMBDA x : TRUE)

\* ranked holds a pair <<x, r>> for each element x to order, r the number of
\* elements that come before x: the elements in that order.  This is what a
\* stable sort yields when "before" breaks ties by original position.
Ordered(ranked) ==
    Force([k \in 1..Cardinality(ranked) |-> (CHOOSE pr \in ranked : pr[2] = k - 1)[1]])

\* The index labels of a dataframe, in order
Index(data) == Force([i \in 1..Len(data) |-> i])

\* load_data returns None (no dataframe) or a dataframe
None == [none |-> TRUE, rows |-> <<>>]

DataFrame(rows) == [none |-> FALSE, rows |-> rows]

\* lines 38-40: the rows whose genre has the key of genre_filter
GenreMaskInverted(data, genre_filter) ==
    LET selected_normalized == Canonicalize(genre_filter)
    IN  SelectSeq(Index(data), LAMBDA i : Canonicalize(data[i].genre) # selected_normalized)

GenreMask(data, genre_filter) ==
    LET selected_normalized == Canonicalize(genre_filter)
    IN  SelectSeq(Index(data), LAMBDA i : Canonicalize(data[i].genre) = selected_normalized)

\* groupby('artist_name'): the artists of the rows idx of data, ascending
GroupKeys(data, idx) ==
    LET names == {data[i].artist_name : i \in Range(idx)}
    IN  Ordered({<<b, Cardinality({a \in names : a < b})>> : b \in names})

\* line 43: data.groupby('artist_name')['popularity'].max(), a series of
\* (artist, maximum) in ascending order of artist
ArtistMaxPopularity(data) ==
    LET names == GroupKeys(data, Index(data))
    IN  Force([k \in 1..Len(names) |->
                 [key |-> names[k],
                  value |-> Max({data[i].popularity :
                                   i \in {j \in 1..Len(data) : data[j].artist_name = names[k]}})]])

\* Series.nlargest(n), keep='first': the keys of the n largest values, of equal
\* values the first in the series' order
SeriesNSmallest(n, series) ==
    LET Before(p, q) == \/ series[p].value < series[q].value
                        \/ series[p].value = series[q].value /\ p < q
        order == Ordered({<<q, Cardinality({p \in DOMAIN series : Before(p, q)})>> :
                            q \in DOMAIN series})
    IN  Force([k \in 1..Min2(n, Len(order)) |-> series[order[k]].key])

SeriesNLargest(n, series) ==
    LET Before(p, q) == \/ series[p].value > series[q].value
                        \/ series[p].value = series[q].value /\ p < q
        order == Ordered({<<q, Cardinality({p \in DOMAIN series : Before(p, q)})>> :
                            q \in DOMAIN series})
    IN  Force([k \in 1..Min2(n, Len(order)) |-> series[order[k]].key])

\* lines 43-45: the rows of the 500 artists of highest maximum popularity
TopArtistsCap == 500

TopArtistsMask(data) ==
    LET artist_max_popularity == ArtistMaxPopularity(data)
        top_artists == Range(SeriesNLargest(TopArtistsCap, artist_max_popularity))
    IN  SelectSeq(Index(data), LAMBDA i : data[i].artist_name \in top_artists)

\* lines 36-45
FilteredData(data, genre_filter) ==
    IF genre_filter # Todos THEN GenreMask(data, genre_filter) ELSE TopArtistsMask(data)

\* line 52: sort_values(['artist_name', 'popularity'], ascending=[True, False]),
\* a stable sort: rows equal in both keep their order
SortedDataAscending(data, idx) ==
    LET Before(i, j) == \/ data[i].artist_name < data[j].artist_name
                        \/ /\ data[i].artist_name = data[j].artist_name
                           /\ \/ data[i].popularity < data[j].popularity
                              \/ data[i].popularity = data[j].popularity /\ i < j
    IN  Ordered({<<j, Cardinality({i \in Range(idx) : Before(i, j)})>> : j \in Range(idx)})

SortedData(data, idx) ==
    LET Before(i, j) == \/ data[i].artist_name < data[j].artist_name
                        \/ /\ data[i].artist_name = data[j].artist_name
                           /\ \/ data[i].popularity > data[j].popularity
                              \/ data[i].popularity = data[j].popularity /\ i < j
    IN  Ordered({<<j, Cardinality({i \in Range(idx) : Before(i, j)})>> : j \in Range(idx)})

\* line 55: groupby('artist_name').head(3): of each artist the first 3 rows
HeadPerArtist == 3

GroupHeadTwo(data, sorted_data) ==
    SelectSeq(Index(sorted_data),
              LAMBDA k : Cardinality({m \in 1..(k - 1) :
                            data[sorted_data[m]].artist_name = data[sorted_data[k]].artist_name})
                         < 2)

GroupHead(data, sorted_data) ==
    SelectSeq(Index(sorted_data),
              LAMBDA k : Cardinality({m \in 1..(k - 1) :
                            data[sorted_data[m]].artist_name = data[sorted_data[k]].artist_name})
                         < HeadPerArtist)

Top3PerArtist(data, sorted_data) ==
    LET kept == GroupHead(data, sorted_data)
    IN  Force([p \in 1..Len(kept) |-> sorted_data[kept[p]]])

\* .round(1) of a mean total / count, in tenths: numpy rounds half to even
Round1(total, count) ==
    LET q == (10 * total) \div count
        r == (10 * total) % count
    IN  IF 2 * r < count THEN q
        ELSE IF 2 * r > count THEN q + 1
        ELSE IF q % 2 = 0 THEN q ELSE q + 1

\* lines 58-69: one row of artist_stats
ArtistStats(data, idx, top_3_per_artist, a) ==
    LET group == SelectSeq(top_3_per_artist, LAMBDA i : data[i].artist_name = a)
        pops == Force([p \in 1..Len(group) |-> data[group[p]].popularity])
    IN  [artist_name |-> a,
         avg_top3_popularity |-> Round1(Sum(pops), Len(pops)),
         best_song_popularity |-> Max(Range(pops)),
         best_song |-> data[group[1]].track_name,
         total_songs |-> Cardinality({i \in Range(idx) : data[i].artist_name = a})]

\* line 72: DataFrame.nlargest(10, 'avg_top3_popularity'), keep='first'
TopN == 10

FrameNSmallest(n, frame) ==
    LET Before(p, q) ==
            \/ frame[p].avg_top3_popularity < frame[q].avg_top3_popularity
            \/ frame[p].avg_top3_popularity = frame[q].avg_top3_popularity /\ p < q
        order == Ordered({<<q, Cardinality({p \in DOMAIN frame : Before(p, q)})>> :
                            q \in DOMAIN frame})
    IN  Force([k \in 1..Min2(n, Len(order)) |-> frame[order[k]]])

FrameNLargest(n, frame) ==
    LET Before(p, q) ==
            \/ frame[p].avg_top3_popularity > frame[q].avg_top3_popularity
            \/ frame[p].avg_top3_popularity = frame[q].avg_top3_popularity /\ p < q
        order == Ordered({<<q, Cardinality({p \in DOMAIN frame : Before(p, q)})>> :
                            q \in DOMAIN frame})
    IN  Force([k \in 1..Min2(n, Len(order)) |-> frame[order[k]]])

\* lines 32-74: the body of calculate_top_artists on the value of load_data()
CalcBody(data, genre_filter) ==
    IF data.none THEN [filtered_data |-> <<>>, result |-> <<>>]
    ELSE LET filtered == FilteredData(data.rows, genre_filter)
         IN  IF Len(filtered) = 0 THEN [filtered_data |-> filtered, result |-> <<>>]
             ELSE LET sorted_data == SortedData(data.rows, filtered)
                      top_3_per_artist == Top3PerArtist(data.rows, sorted_data)
                      names == GroupKeys(data.rows, filtered)
                      artist_stats == Force([k \in 1..Len(names) |->
                                         ArtistStats(data.rows, filtered, top_3_per_artist, names[k])])
                  IN  [filtered_data |-> filtered,
                       result |-> FrameNLargest(TopN, artist_stats)]

----------------------------------------------------------------------------
(* st.cache_data *)

\* An entry is kept for the life of the process; a raised exception leaves none.
LoadCacheStoreNothing(cache, value) == cache

LoadCacheStore(cache, value) == [filled |-> TRUE, value |-> value]

CalcCacheStore(cache, genre_filter, result) ==
    [g \in DOMAIN cache \cup {genre_filter} |->
        IF g = genre_filter THEN result ELSE cache[g]]

----------------------------------------------------------------------------
(* load_data *)

NotFoundNotice == "Arquivo nao encontrado"
CannotLoadNotice == "Nao foi possivel carregar os dados"

\* lines 17-26.  read_csv raises FileNotFoundError for a missing file, which is
\* caught, and a parser error for a file it cannot parse, which is not.
\* st.cache_data replays the st.error of a cached call.
load_data(cache, file) ==
    IF cache.filled
    THEN [raised |-> FALSE, data |-> cache.value, cache |-> cache, read |-> FALSE,
          notices |-> IF cache.value.none THEN <<NotFoundNotice>> ELSE <<>>]
    ELSE IF file.kind = "missing"
    THEN [raised |-> FALSE, data |-> None, cache |-> LoadCacheStore(cache, None),
          read |-> TRUE, notices |-> <<NotFoundNotice>>]
    ELSE IF file.kind = "unparseable"
    THEN [raised |-> TRUE, data |-> None, cache |-> cache, read |-> TRUE, notices |-> <<>>]
    ELSE [raised |-> FALSE, data |-> DataFrame(file.rows),
          cache |-> LoadCacheStore(cache, DataFrame(file.rows)),
          read |-> TRUE, notices |-> <<>>]

----------------------------------------------------------------------------
(* calculate_top_artists *)

\* lines 28-74 behind st.cache_data, keyed by genre_filter
calculate_top_artists(lcache, ccache, file, genre_filter) ==
    IF genre_filter \in DOMAIN ccache
    THEN [raised |-> FALSE, result |-> ccache[genre_filter], filtered_data |-> <<>>,
          computed |-> FALSE, read |-> FALSE, load_cache |-> lcache, calc_cache |-> ccache,
          notices |-> <<>>]
    ELSE LET ld == load_data(lcache, file)
         IN  IF ld.raised
             THEN [raised |-> TRUE, result |-> <<>>, filtered_data |-> <<>>,
                   computed |-> FALSE, read |-> ld.read, load_cache |-> ld.cache,
                   calc_cache |-> ccache, notices |-> ld.notices]
             ELSE LET body == CalcBody(ld.data, genre_filter)
                  IN  [raised |-> FALSE, result |-> body.result,
                       filtered_data |-> body.filtered_data,
                       computed |-> TRUE, read |-> ld.read, load_cache |-> ld.cache,
                       calc_cache |-> CalcCacheStore(ccache, genre_filter, body.result),
                       notices |-> ld.notices]

----------------------------------------------------------------------------
(* main *)

\* line 90: data['genre'].unique(), in order of first appearance
RECURSIVE Unique(_)
Unique(s) ==
    IF s = <<>> THEN <<>>
    ELSE LET front == Unique(SubSeq(s, 1, Len(s) - 1))
         IN  IF s[Len(s)] \in Range(front) THEN front ELSE Append(front, s[Len(s)])

UniqueGenres(data) == Unique([i \in 1..Len(data) |-> data[i].genre])

\* lines 92-102: the loop over unique_genres
RECURSIVE CleanLoop(_)
CleanLoop(unique_genres) ==
    IF unique_genres = <<>> THEN [cleaned_genres |-> <<>>, seen_genres |-> {}]
    ELSE LET before == CleanLoop(SubSeq(unique_genres, 1, Len(unique_genres) - 1))
             genre == unique_genres[Len(unique_genres)]
             normalized == Normalized(genre)
             normalized_key == NormalizedKey(genre)
         IN  IF normalized_key \notin before.seen_genres
             THEN [cleaned_genres |-> Append(before.cleaned_genres, normalized),
                   seen_genres |-> before.seen_genres \cup {normalized_key}]
             ELSE before

\* line 104
GenreList(data) == <<Todos>> \o Sorted(CleanLoop(UniqueGenres(data)).cleaned_genres)

\* lines 108-113
MainFilteredData(data, selected) ==
    IF selected # Todos THEN GenreMask(data, selected) ELSE Index(data)

----------------------------------------------------------------------------
(* The state machine *)

NoCall == [op |-> "start", genre_filter |-> <<>>, raised |-> FALSE, data |-> None,
           result |-> <<>>, computed |-> FALSE, read |-> FALSE]

EmptyCalcCache == [g \in {} |-> <<>>]

InitWith(files) ==
    /\ csv_file \in files
    /\ load_cache = [filled |-> FALSE, value |-> None]
    /\ calc_cache = EmptyCalcCache
    /\ ret = NoCall
    /\ filtered_data = <<>>
    /\ notices = <<>>
    /\ genres = <<>>
    /\ selected_genre = <<>>
    /\ main_filtered_data = <<>>

\* A call of load_data()
LoadData ==
    \E ld \in {load_data(load_cache, csv_file)} :
        /\ load_cache' = ld.cache
        /\ ret' = [op |-> "load_data", genre_filter |-> <<>>, raised |-> ld.raised,
                   data |-> ld.data, result |-> <<>>, computed |-> ld.read, read |-> ld.read]
        /\ notices' = ld.notices
        /\ filtered_data' = <<>>
        /\ genres' = <<>>
        /\ selected_genre' = <<>>
        /\ main_filtered_data' = <<>>
        /\ UNCHANGED <<csv_file, calc_cache>>

\* A call of calculate_top_artists(genre_filter)
CalculateTopArtists(genre_filter) ==
    \E c \in {calculate_top_artists(load_cache, calc_cache, csv_file, genre_filter)} :
        /\ load_cache' = c.load_cache
        /\ calc_cache' = c.calc_cache
        /\ ret' = [op |-> "calculate_top_artists", genre_filter |-> genre_filter,
                   raised |-> c.raised, data |-> None, result |-> c.result,
                   computed |-> c.computed, read |-> c.read]
        /\ filtered_data' = c.filtered_data
        /\ notices' = c.notices
        /\ genres' = <<>>
        /\ selected_genre' = <<>>
        /\ main_filtered_data' = <<>>
        /\ UNCHANGED csv_file

\* The options main offers: the positions of genres, once the data is loaded
MainChoices ==
    LET ld == load_data(load_cache, csv_file)
    IN  IF ld.raised \/ ld.data.none THEN {1} ELSE 1..Len(GenreList(ld.data.rows))

\* One run of main(), the user having picked the option at position choice
Main(choice) ==
    \E ld \in {load_data(load_cache, csv_file)} :
        IF ld.raised
        THEN /\ ret' = [op |-> "main", genre_filter |-> <<>>, raised |-> TRUE, data |-> None,
                        result |-> <<>>, computed |-> FALSE, read |-> ld.read]
             /\ notices' = ld.notices
             /\ load_cache' = ld.cache
             /\ filtered_data' = <<>>
             /\ genres' = <<>>
             /\ selected_genre' = <<>>
             /\ main_filtered_data' = <<>>
             /\ UNCHANGED <<csv_file, calc_cache>>
        ELSE IF ld.data.none
        THEN /\ ret' = [op |-> "main", genre_filter |-> <<>>, raised |-> FALSE, data |-> None,
                        result |-> <<>>, computed |-> FALSE, read |-> ld.read]
             /\ notices' = ld.notices \o <<CannotLoadNotice>>
             /\ load_cache' = ld.cache
             /\ filtered_data' = <<>>
             /\ genres' = <<>>
             /\ selected_genre' = <<>>
             /\ main_filtered_data' = <<>>
             /\ UNCHANGED <<csv_file, calc_cache>>
        ELSE \E options \in {GenreList(ld.data.rows)} :
             \E c \in {calculate_top_artists(ld.cache, calc_cache, csv_file, options[choice])} :
             LET selected == options[choice]
             IN  /\ genres' = options
                 /\ selected_genre' = selected
                 /\ main_filtered_data' = MainFilteredData(ld.data.rows, selected)
                 /\ load_cache' = c.load_cache
                 /\ calc_cache' = c.calc_cache
                 /\ ret' = [op |-> "main", genre_filter |-> selected, raised |-> c.raised,
                            data |-> None, result |-> c.result, computed |-> c.computed,
                            read |-> ld.read]
                 /\ filtered_data' = c.filtered_data
                 /\ notices' = ld.notices \o c.notices
                 /\ UNCHANGED csv_file

\* The environment replaces, removes or damages the file
FileChange(file) ==
    /\ file # csv_file
    /\ csv_file' = file
    /\ ret' = [NoCall EXCEPT !.op = "file"]
    /\ notices' = <<>>
    /\ filtered_data' = <<>>
    /\ genres' = <<>>
    /\ selected_genre' = <<>>
    /\ main_filtered_data' = <<>>
    /\ UNCHANGED <<load_cache, calc_cache>>

----------------------------------------------------------------------------
(* The files the model is run on *)

Missing == [kind |-> "missing", rows |-> <<>>]
Unparseable == [kind |-> "unparseable", rows |-> <<>>]
CsvOf(rows) == [kind |-> "ok", rows |-> rows]

Pop == <<"P","o","p">>
PopLower == <<"p","o","p">>
Rock == <<"R","o","c","k">>
Jazz == <<"J","a","z","z">>

\* The labels of the example: Hip-Hop, hip hop, and Hip-Hop's written with
\* U+2011 and U+2019
HipHop == <<"H","i","p","-","H","o","p">>
HipSpaceHop == <<"h","i","p"," ","h","o","p">>
HipHopS == <<"H","i","p",NBHYPHEN,"H","o","p",RSQUO,"s">>
\* and labels that differ from them in case, punctuation, quote style or
\* surrounding space
HipHopJoined == <<"H","i","p","H","o","p">>
HipHopBacktick == <<"h","i","p","-","h","o","p",BACKTICK,"s">>
HipHopPadded == <<" ","H","i","p","-","H","o","p">>

GenreLabels == {HipHop, HipSpaceHop, HipHopS, HipHopJoined, HipHopBacktick, HipHopPadded, Todos}

\* A row without its track name, and rows named by their position
Row(genre, artist, popularity) ==
    [genre |-> genre, artist_name |-> artist, popularity |-> popularity]

Named(rows) ==
    [i \in 1..Len(rows) |->
        [genre |-> rows[i].genre, artist_name |-> rows[i].artist_name,
         track_name |-> i, popularity |-> rows[i].popularity]]

SeqsUpTo(S, n) == UNION {[1..k -> S] : k \in 0..n}

\* The dataset of the example: artist 1 with 90, 80, 70, 60 and artist 2 with 95
ExampleRows ==
    <<Row(Pop, 1, 90), Row(Pop, 1, 80), Row(Pop, 1, 70), Row(Pop, 1, 60), Row(Pop, 2, 95)>>

CorePopularities == {70, 95}
CoreRows == {Row(g, a, p) : g \in {Pop, Rock}, a \in {1, 2}, p \in CorePopularities}

\* n further artists, 3 .. n+2, of one track each
Filler(j) == Row(IF j % 3 = 0 THEN Rock ELSE Pop, j + 2, (37 * j) % 101)
Fillers(n) == [j \in 1..n |-> Filler(j)]

RankDatasets ==
    {Named(prefix \o core) : prefix \in {<<>>, ExampleRows}, core \in SeqsUpTo(CoreRows, MaxRows)}
    \cup {Named(ExampleRows \o core \o Fillers(SmallFill)) : core \in SeqsUpTo(CoreRows, 1)}

RankFilters == {Todos, PopLower, Jazz}

\* One row for each label of a sequence of labels
GenreRows(labels) == [i \in 1..Len(labels) |-> Row(labels[i], 1 + (i % 2), 50 + i)]

GenreDatasets ==
    {Named(GenreRows(labels)) :
        labels \in SeqsUpTo(GenreLabels, MaxLabels) \cup {<<HipHop, HipSpaceHop, HipHopS>>}}

ProcessFiles ==
    {Missing, Unparseable, CsvOf(<<>>), CsvOf(Named(ExampleRows)),
     CsvOf(Named(<<Row(Rock, 1, 70), Row(HipHopPadded, 2, 95)>>))}

ProcessFilters == {Todos, PopLower, Jazz}

----------------------------------------------------------------------------
(* Specifications *)

\* The process: calls of the three functions while the file changes under it
Init == InitWith(ProcessFiles)

Next ==
    \/ LoadData
    \/ \E g \in ProcessFilters : CalculateTopArtists(g)
    \/ \E choice \in MainChoices : Main(choice)
    \/ \E file \in ProcessFiles : FileChange(file)

Spec == Init /\ [][Next]_vars

\* calculate_top_artists over the datasets of RankDatasets
InitRank == InitWith({CsvOf(rows) : rows \in RankDatasets})

NextRank == \E g \in RankFilters : CalculateTopArtists(g)

SpecRank == InitRank /\ [][NextRank]_vars

\* calculate_top_artists('Todos') over datasets of few and of many artists
CapDatasets ==
    {Named(prefix \o Fillers(n)) :
        prefix \in SeqsUpTo(CoreRows, MaxRows), n \in {0, SmallFill}}
    \cup {Named(ExampleRows \o Fillers(BigFill))}

InitCap == InitWith({CsvOf(rows) : rows \in CapDatasets})

NextCap == CalculateTopArtists(Todos)

SpecCap == InitCap /\ [][NextCap]_vars

\* main over the datasets of GenreDatasets
InitGenres == InitWith({CsvOf(rows) : rows \in GenreDatasets})

NextGenres == \E choice \in MainChoices : Main(choice)

SpecGenres == InitGenres /\ [][NextGenres]_vars

----------------------------------------------------------------------------
(* What the claims speak of *)

\* The last call was calculate_top_artists and its body ran (no cached result)
Calculated == ret.op = "calculate_top_artists" /\ ~ret.raised /\ ret.computed

\* The dataframe load_data holds
LoadedRows == load_cache.value.rows

\* The rows of artist a in the candidate set, and the artists of the candidate set
CandidateRows(a) == {i \in Range(filtered_data) : LoadedRows[i].artist_name = a}
CandidateArtists == {LoadedRows[i].artist_name : i \in Range(filtered_data)}

RECURSIVE SumPopularity(_)
SumPopularity(T) ==
    IF T = {} THEN 0
    ELSE LET i == CHOOSE j \in T : TRUE
         IN  LoadedRows[i].popularity + SumPopularity(T \ {i})

Abs(x) == IF x < 0 THEN -x ELSE x

\* T holds min(3, n) rows of R and no row of R outside T is more popular than one in T
IsTop3(T, R) ==
    /\ T \subseteq R
    /\ Cardinality(T) = Min2(3, Cardinality(R))
    /\ \A i \in T, j \in R \ T : LoadedRows[i].popularity >= LoadedRows[j].popularity

\* v, in tenths, is the mean of the popularity of the rows T rounded to one decimal
IsRoundedMean(v, T) == 2 * Abs(10 * SumPopularity(T) - v * Cardinality(T)) <= Cardinality(T)

\* The rounded mean of the 3 most popular rows of artist a in the candidate set
MeanTop3(a) ==
    LET T == CHOOSE U \in SUBSET CandidateRows(a) : IsTop3(U, CandidateRows(a))
    IN  CHOOSE v \in 0..1000 : IsRoundedMean(v, T)

ResultArtists == {ret.result[k].artist_name : k \in DOMAIN ret.result}

\* C1: calculate_top_artists returns min(10, number of artists of the candidate
\* set) aggregates of distinct artists, in non-increasing order of
\* avg_top3_popularity, and no artist left out has a strictly higher
\* avg_top3_popularity than one returned.
C1_TopTenByAverage ==
    Calculated =>
        /\ Len(ret.result) = Min2(10, Cardinality(CandidateArtists))
        /\ ResultArtists \subseteq CandidateArtists
        /\ Cardinality(ResultArtists) = Len(ret.result)
        /\ \A k \in 1..(Len(ret.result) - 1) :
              ret.result[k].avg_top3_popularity >= ret.result[k + 1].avg_top3_popularity
        /\ \A a \in CandidateArtists \ ResultArtists : \A k \in DOMAIN ret.result :
              MeanTop3(a) <= ret.result[k].avg_top3_popularity

\* More than 10 artists: 10 are returned and one left out has a lower average
C1_Witness ==
    /\ Calculated
    /\ Cardinality(CandidateArtists) > 10
    /\ Len(ret.result) = 10
    /\ \E a \in CandidateArtists \ ResultArtists :
          MeanTop3(a) < ret.result[10].avg_top3_popularity

\* The result of the example of the specification: artist 2 (95.0), then artist 1
\* (80.0, best song the first row, 4 songs)
ExampleResult ==
    <<[artist_name |-> 2, avg_top3_popularity |-> 950, best_song_popularity |-> 95,
       best_song |-> 5, total_songs |-> 1],
      [artist_name |-> 1, avg_top3_popularity |-> 800, best_song_popularity |-> 90,
       best_song |-> 1, total_songs |-> 4]>>

\* C2: avg_top3_popularity of every returned aggregate is the mean, rounded to
\* one decimal, of the artist's min(3, n) most popular rows of the candidate set;
\* on the example dataset with the filter pop the result is ExampleResult.
C2_AverageOfTop3 ==
    Calculated =>
        /\ \A k \in DOMAIN ret.result :
              \E T \in SUBSET CandidateRows(ret.result[k].artist_name) :
                  /\ IsTop3(T, CandidateRows(ret.result[k].artist_name))
                  /\ IsRoundedMean(ret.result[k].avg_top3_popularity, T)
        /\ (LoadedRows = Named(ExampleRows) /\ ret.genre_filter = PopLower)
              => ret.result = ExampleResult

\* An artist of more than 3 rows whose mean is rounded
C2_Witness ==
    /\ Calculated
    /\ \E k \in DOMAIN ret.result :
          /\ Cardinality(CandidateRows(ret.result[k].artist_name)) > 3
          /\ ret.result[k].avg_top3_popularity % 10 # 0

\* The most popular row of artist a in the candidate set, of several the first
FirstBest(a) ==
    LET top == Max({LoadedRows[i].popularity : i \in CandidateRows(a)})
    IN  CHOOSE i \in CandidateRows(a) :
            /\ LoadedRows[i].popularity = top
            /\ \A j \in CandidateRows(a) : LoadedRows[j].popularity = top => i <= j

\* C3: best_song is the track name of the artist's most popular row of the
\* candidate set, of several equally popular ones the first in the dataset's
\* order, and best_song_popularity is that row's popularity.
C3_BestSong ==
    Calculated =>
        \A k \in DOMAIN ret.result :
            LET best == FirstBest(ret.result[k].artist_name)
            IN  /\ ret.result[k].best_song = LoadedRows[best].track_name
                /\ ret.result[k].best_song_popularity = LoadedRows[best].popularity

\* Two rows of an artist tie for the maximum and a less popular row precedes them
C3_Witness ==
    /\ Calculated
    /\ \E k \in DOMAIN ret.result :
          LET R == CandidateRows(ret.result[k].artist_name)
              best == FirstBest(ret.result[k].artist_name)
          IN  /\ \E j \in R : j > best /\ LoadedRows[j].popularity = LoadedRows[best].popularity
              /\ \E j \in R : j < best
              /\ ret.result[k].best_song = LoadedRows[best].track_name

\* The key of genre_filter is the key of no row's genre
MatchesNoRow(genre_filter) ==
    \A i \in DOMAIN LoadedRows : Canonicalize(LoadedRows[i].genre) # Canonicalize(genre_filter)

\* C7: on a loaded dataset, a genre filter other than Todos whose key is the key
\* of no row's genre gets an empty result, and the call does not raise.
C7_NoMatchIsEmpty ==
    (/\ ret.op = "calculate_top_artists"
     /\ load_cache.filled /\ ~load_cache.value.none
     /\ ret.genre_filter # Todos
     /\ MatchesNoRow(ret.genre_filter))
        => ~ret.raised /\ ret.result = <<>>

\* Jazz on a dataset that has rows, none of them Jazz
C7_Witness ==
    /\ Calculated
    /\ ret.genre_filter = Jazz
    /\ Len(LoadedRows) > 0
    /\ MatchesNoRow(Jazz)
    /\ filtered_data = <<>>
    /\ ret.result = <<>>

AllArtists == {LoadedRows[i].artist_name : i \in DOMAIN LoadedRows}

MaxPopularity(a) ==
    Max({LoadedRows[i].popularity : i \in {j \in DOMAIN LoadedRows : LoadedRows[j].artist_name = a}})

\* C8: with Todos and more than 500 artists the candidate set is every row of 500
\* artists, none left out having a strictly higher maximum popularity than one
\* kept; with 500 artists or fewer it is every row.
C8_Cap500 ==
    (Calculated /\ ret.genre_filter = Todos) =>
        IF Cardinality(AllArtists) > 500
        THEN /\ Cardinality(CandidateArtists) = 500
             /\ Range(filtered_data) =
                   {i \in DOMAIN LoadedRows : LoadedRows[i].artist_name \in CandidateArtists}
             /\ \A a \in AllArtists \ CandidateArtists :
                   LET m == MaxPopularity(a)
                   IN  \A b \in CandidateArtists : m <= MaxPopularity(b)
        ELSE filtered_data = Index(LoadedRows)

\* More than 500 artists, and rows are left out
C8_Witness ==
    /\ Calculated
    /\ ret.genre_filter = Todos
    /\ Cardinality(AllArtists) > 500
    /\ Len(filtered_data) < Len(LoadedRows)
    /\ Len(ret.result) = 10

\* main has built the genre list
MainListed == ret.op = "main" /\ ~ret.raised /\ genres # <<>>

\* The labels of the dataset, in order of first appearance
Labels == UniqueGenres(csv_file.rows)

QuoteCharacters == {DQUOTE, "'", BACKTICK, RSQUO}
PunctuationCharacters == {"-", NBHYPHEN}

WithoutQuotesAndPunctuation(s) ==
    SelectSeq(s, LAMBDA c : c \notin QuoteCharacters \cup PunctuationCharacters)

SameLetter(c, d) ==
    c = d \/ \E k \in DOMAIN UpperCase : {c, d} = {UpperCase[k], LowerCase[k]}

\* s and t differ only in quote style, case or punctuation
DifferOnlyInQuotesCasePunctuation(s, t) ==
    LET a == WithoutQuotesAndPunctuation(s)
        b == WithoutQuotesAndPunctuation(t)
    IN  /\ s # t
        /\ Len(a) = Len(b)
        /\ \A i \in DOMAIN a : SameLetter(a[i], b[i])

\* The options of the genre list, the first one aside, that have the key of label
EntriesOf(label) ==
    {k \in 2..Len(genres) : Canonicalize(genres[k]) = NormalizedKey(label)}

\* Any two labels that differ only in quote style, case or punctuation have one
\* key and one option, the one of them seen first, stripped and with its quotes
\* normalized
SimilarLabelsCollapse ==
    \A i, j \in DOMAIN Labels :
        (i < j /\ DifferOnlyInQuotesCasePunctuation(Labels[i], Labels[j])) =>
            /\ NormalizedKey(Labels[i]) = NormalizedKey(Labels[j])
            /\ Cardinality(EntriesOf(Labels[i])) = 1
            /\ \E f \in DOMAIN Labels :
                  /\ NormalizedKey(Labels[f]) = NormalizedKey(Labels[i])
                  /\ \A g \in 1..(f - 1) : NormalizedKey(Labels[g]) # NormalizedKey(Labels[i])
                  /\ \A k \in EntriesOf(Labels[i]) : genres[k] = Normalized(Labels[f])

ExampleLabels == <<HipHop, HipSpaceHop, HipHopS>>

C5_GenreListShape ==
    MainListed =>
        /\ genres[1] = Todos
        /\ \A k \in 2..Len(genres) : genres[k] # Todos
        /\ \A k \in 2..(Len(genres) - 1) : ~StrLess(genres[k + 1], genres[k])
        /\ \A k, m \in 2..Len(genres) :
              k # m => Canonicalize(genres[k]) # Canonicalize(genres[m])

\* The rows whose label was collapsed into the option entry
CollapsedInto(entry) ==
    {i \in DOMAIN csv_file.rows :
        NormalizedKey(csv_file.rows[i].genre) = NormalizedKey(entry)}

\* C10: an option other than Todos, once selected, selects in main and in
\* calculate_top_artists exactly the rows whose label was collapsed into it,
\* and so at least one row.
C10_OptionSelectsItsRows ==
    (MainListed /\ selected_genre # Todos) =>
        /\ Range(main_filtered_data) = CollapsedInto(selected_genre)
        /\ ret.computed => Range(filtered_data) = CollapsedInto(selected_genre)
        /\ main_filtered_data # <<>>

\* C6: when the file is missing or cannot be parsed, the call that reads it does
\* not raise: load_data returns no dataset, main stops with a notice and
\* calculate_top_artists returns an empty result.
C6_LoadFailureRecovered ==
    (ret.read /\ csv_file.kind \in {"missing", "unparseable"}) =>
        /\ ~ret.raised
        /\ ret.op = "load_data" => ret.data.none
        /\ ret.op = "main" => notices # <<>> /\ genres = <<>>
        /\ ret.op = "calculate_top_artists" => ret.result = <<>>

\* C9: a call of calculate_top_artists, cached or not, returns what its body
\* yields on the dataset load_data returns at that moment.
C9_CacheTransparent ==
    ((ret.op = "calculate_top_artists" \/ (ret.op = "main" /\ genres # <<>>)) /\ ~ret.raised) =>
        LET ld == load_data(load_cache, csv_file)
        IN  /\ ~ld.raised
            /\ ret.result = CalcBody(ld.data, ret.genre_filter).result

\* A cached result is returned after the file on disk has changed
C9_Witness ==
    /\ ret.op = "calculate_top_artists"
    /\ ~ret.raised
    /\ ~ret.computed
    /\ ret.result # <<>>
    /\ load_cache.filled
    /\ csv_file # CsvOf(load_cache.value.rows)

====
